---- MODULE Spec2Model ----
(***************************************************************************)
(* Electric Bill Optimizer: the React front end (Dashboard and Plans       *)
(* components) and the analysis core it talks to (AnomalyDetector,         *)
(* PlanRecommender).                                                       *)
(*                                                                         *)
(* Encoding of JavaScript values: a value that may be null or undefined is *)
(* a sequence of length at most one; Null is the empty sequence and <<v>>  *)
(* is the value v.  An object is a function from its keys to values, a     *)
(* missing key reads as undefined.  Money is in cents.                     *)
(***************************************************************************)
EXTENDS Integers, Sequences, FiniteSets, TLC

VARIABLES
  \* Dashboard component (src/unnamed/part_001)
  file,        \* useState(null): the file of the last selection
  analysis,    \* useState(null): response.data.analysis of the last writer
  anomalies,   \* useState(null): response.data.anomalies of the last writer
  uploads,     \* one record per handleFileUpload call, in call order
  returned,    \* history: response.data returned to the newest call, if any
  analysisFrom,  \* history: the call whose continuation wrote analysis, 0 if none
  anomaliesFrom, \* history: the call whose continuation wrote anomalies, 0 if none
  \* Plans component (src/src/components/Plans.js)
  mounted,     \* is a Plans instance mounted
  mountNo,     \* how many times Plans has been mounted
  plans,       \* useState(null)
  loading,     \* useState(true)
  error,       \* useState(null)
  fetchPc,     \* position of fetchPlans of the mounted instance
  fetchOutcome, \* history: "pending" | "fulfilled" | "rejected"
  getCount,    \* history: GET /api/plans requests issued by the mounted instance
  stale,       \* requests of unmounted instances still in flight
  \* PlanRecommender (analysis core)
  catalog,     \* PlanCatalog: sequence of Plan
  avgMonthlyKwh, \* UsageProfile.average_monthly_kwh
  ranked,      \* RankedPlans
  recPc,       \* "ready" | "done"
  \* AnomalyDetector (analysis core)
  series,      \* UsageSeries: usage_kwh of the readings in date order
  kTenths,     \* threshold multiplier k, in tenths
  report,      \* AnomalyReport
  detPc        \* "ready" | "done"

dashVars  == <<file, analysis, anomalies, uploads, returned, analysisFrom, anomaliesFrom>>
plansVars == <<mounted, mountNo, plans, loading, error, fetchPc, fetchOutcome, getCount, stale>>
recVars   == <<catalog, avgMonthlyKwh, ranked, recPc>>
detVars   == <<series, kTenths, report, detPc>>
vars      == <<dashVars, plansVars, recVars, detVars>>

----------------------------------------------------------------------------
(* JavaScript values *)

Null == <<>>

\* JavaScript truthiness of a nullable object reference.
Truthy(v) == v /= Null

\* obj.key: the value under key, undefined (Null) when obj has no such key.
Read(obj, key) == IF key \in DOMAIN obj THEN <<obj[key]>> ELSE Null

\* obj.key where the stored value is itself nullable (JSON null).
ReadNullable(obj, key) == IF key \in DOMAIN obj THEN obj[key] ELSE Null

\* arr[index] with a 0-based JavaScript index: undefined past the end.
At(arr, index) == IF index + 1 \in DOMAIN arr THEN <<arr[index + 1]>> ELSE Null

----------------------------------------------------------------------------
(* Bounds *)

MaxUploads   == 3   \* handleFileUpload calls in one run
MaxAnomalies == 2   \* days of the uploaded series, each possibly flagged
MaxMounts    == 2   \* mounts of the Plans component in one run
MaxCatalog   == 3   \* plans in a PlanCatalog
MaxSeries    == 4   \* readings in a UsageSeries

----------------------------------------------------------------------------
(* Dashboard: src/unnamed/part_001 lines 76-169 *)

\* The files the user can select.
Files == {"january.csv", "february.csv"}

\* The usage of day d of the uploaded series, distinct from day to day.
UsageOfDay(d) == 40 - 3 * d

RECURSIVE AscendingDays(_)
AscendingDays(S) ==
  IF S = {} THEN <<>>
  ELSE LET m == CHOOSE x \in S : \A y \in S : x <= y
       IN  <<m>> \o AscendingDays(S \ {m})

\* The AnomalyReport of the data model that flags the days of S: dates in
\* ascending order, values index-aligned with them.
ReportOfDays(S) ==
  LET days == AscendingDays(S)
  IN  [anomaly_dates  |-> days,
       anomaly_values |-> [n \in 1 .. Len(days) |-> UsageOfDay(days[n])]]

\* Every report over a series of MaxAnomalies days.
AnomalyReports == { ReportOfDays(S) : S \in SUBSET (1 .. MaxAnomalies) }

\* The analysis object the server computes for file f.
AnalysisOf(f) == [monthly_plot |-> <<"monthly", f>>, weekly_plot |-> <<"weekly", f>>]

\* Bodies of a 2xx answer to POST /api/upload for file f: the JSON null, an
\* object without the keys analysis and anomalies, or the upload result.
ResponseData(f) ==
  {Null, << [message |-> "no result"] >>} \cup
  { << [analysis |-> AnalysisOf(f), anomalies |-> r] >> : r \in AnomalyReports }

\* A response continuation is between setAnalysis (line 91) and setAnomalies
\* (line 92).  Outside a React event handler each of the two calls renders
\* on its own, so the state between them is displayed.
Partway == \E i \in DOMAIN uploads : uploads[i].pc = "setAnomalies"

\* Variant: an await between lines 91 and 92, so continuations interleave.
Busy_interleaved == FALSE

\* Lines 91-92 have no await between them: JavaScript runs the continuation
\* to completion, so no other handler or continuation starts while one is
\* partway.
Busy == Partway

DashInit ==
  /\ file = Null
  /\ analysis = Null
  /\ anomalies = Null
  /\ uploads = <<>>
  /\ returned = Null
  /\ analysisFrom = 0
  /\ anomaliesFrom = 0

\* Lines 82-90: the synchronous part of handleFileUpload, up to the await.
HandleFileUpload(f) ==
  /\ ~Busy
  /\ Len(uploads) < MaxUploads
  /\ file' = <<f>>
  /\ uploads' = Append(uploads,
       [file |-> f, pc |-> "await", outcome |-> "pending", data |-> Null,
        overlaps |-> \E j \in DOMAIN uploads : uploads[j].pc = "await"])
  /\ returned' = Null
  /\ UNCHANGED <<analysis, anomalies, analysisFrom, anomaliesFrom>>

\* Variant: a catch block that clears the displayed results.
CatchUploadError_clearing(i) ==
  /\ uploads' = [uploads EXCEPT ![i].pc = "done", ![i].outcome = "failed"]
  /\ analysis' = Null
  /\ anomalies' = Null
  /\ UNCHANGED <<file, returned, analysisFrom, anomaliesFrom>>

\* Lines 93-95: the request is rejected; the catch block logs and returns.
CatchUploadError(i) ==
  /\ uploads' = [uploads EXCEPT ![i].pc = "done", ![i].outcome = "failed"]
  /\ UNCHANGED <<file, analysis, anomalies, returned, analysisFrom, anomaliesFrom>>

UploadFails(i) ==
  /\ ~Busy
  /\ i \in DOMAIN uploads
  /\ uploads[i].pc = "await"
  /\ CatchUploadError(i)

\* Lines 90-91: the request is fulfilled with body d.  Reading .analysis of a
\* null body throws a TypeError inside the try block, which the catch block
\* handles; otherwise setAnalysis runs.
UploadSucceeds(i, d) ==
  /\ ~Busy
  /\ i \in DOMAIN uploads
  /\ uploads[i].pc = "await"
  /\ returned' = IF i = Len(uploads) THEN <<d>> ELSE returned
  /\ IF d = Null
       THEN /\ uploads' = [uploads EXCEPT ![i].pc = "done", ![i].outcome = "threw"]
            /\ UNCHANGED <<file, analysis, anomalies, analysisFrom, anomaliesFrom>>
       ELSE /\ analysis' = Read(d[1], "analysis")
            /\ analysisFrom' = i
            /\ uploads' = [uploads EXCEPT ![i].pc = "setAnomalies", ![i].data = d]
            /\ UNCHANGED <<file, anomalies, anomaliesFrom>>

\* Line 92: setAnomalies(response.data.anomalies), then the handler returns.
\* The outcome recorded is "ok" for a body with the upload result and
\* "empty" for a body without it, whose two reads gave undefined.
SetAnomalies(i) ==
  /\ i \in DOMAIN uploads
  /\ uploads[i].pc = "setAnomalies"
  /\ anomalies' = Read(uploads[i].data[1], "anomalies")
  /\ uploads' = [uploads EXCEPT
       ![i].pc = "done",
       ![i].outcome = IF "analysis" \in DOMAIN uploads[i].data[1] THEN "ok" ELSE "empty",
       ![i].data = Null]
  /\ anomaliesFrom' = i
  /\ UNCHANGED <<file, analysis, returned, analysisFrom>>

\* Lines 118-149: the two plot cards are rendered when analysis is truthy.
AnalysisCards ==
  IF Truthy(analysis)
    THEN << [monthly |-> Read(analysis[1], "monthly_plot"),
             weekly  |-> Read(analysis[1], "weekly_plot")] >>
    ELSE Null

\* Variant: anomaly_values indexed from 1 instead of with the map index.
AnomalyLines_offByOne(a) ==
  [n \in 1 .. Len(a.anomaly_dates) |->
     [key   |-> a.anomaly_dates[n],
      date  |-> a.anomaly_dates[n],
      usage |-> At(a.anomaly_values, n)]]

\* Lines 158-162: anomaly_dates.map((date, index) => ...), one line per date.
AnomalyLines(a) ==
  [n \in 1 .. Len(a.anomaly_dates) |->
     [key   |-> a.anomaly_dates[n],
      date  |-> a.anomaly_dates[n],
      usage |-> At(a.anomaly_values, n - 1)]]

\* Lines 151-166: the anomaly card, rendered when anomalies is truthy and
\* anomaly_dates is not empty.
AnomalyCard ==
  IF Truthy(anomalies) /\ Len(anomalies[1].anomaly_dates) > 0
    THEN << AnomalyLines(anomalies[1]) >>
    ELSE Null

----------------------------------------------------------------------------
(* Plans: src/src/components/Plans.js lines 28-133 *)

Slots == {"best_plan", "second_best", "third_best"}

\* Plan records of the data model; rate_kwh and base_fee may be absent.
PlanA == [name |-> "A", monthly_price |-> 5500, features |-> <<"green", "fixed">>,
          rate_kwh |-> 10, base_fee |-> 1000]
PlanB == [name |-> "B", monthly_price |-> 6000, features |-> <<>>]
PlanC == [name |-> "C", monthly_price |-> 6000, features |-> <<"night">>,
          rate_kwh |-> 12, base_fee |-> 0]
PlanD == [name |-> "D", monthly_price |-> 5000, features |-> <<"flat">>]

DisplayPlans == {PlanA, PlanB}

\* RankedPlans as JSON: a slot is absent (key missing or null) or holds a Plan.
RankedPlansObjects ==
  UNION { [D -> {Null} \cup { <<p>> : p \in DisplayPlans }] : D \in SUBSET Slots }

\* Bodies of a 2xx answer to GET /api/plans: the JSON null or a RankedPlans.
PlansResponseData == {Null} \cup { <<r>> : r \in RankedPlansObjects }

ErrorMessage == "Failed to fetch electricity plans"

\* Variant: no dependency array, the effect runs after every render.
EffectRuns_everyRender(isMount) == TRUE

\* Line 47: the dependency array [] makes the effect run after the mount
\* render only, never after a re-render.
EffectRuns(isMount) == isMount

\* Lines 34-47: the effect calls fetchPlans, which issues the GET (line 37).
AfterRender(isMount) ==
  /\ getCount' = IF EffectRuns(isMount) THEN getCount + 1 ELSE getCount
  /\ UNCHANGED stale

PlansInit ==
  /\ mounted = FALSE
  /\ mountNo = 0
  /\ plans = Null
  /\ loading = TRUE
  /\ error = Null
  /\ fetchPc = "none"
  /\ fetchOutcome = "pending"
  /\ getCount = 0
  /\ stale = 0

\* Lines 30-32, 34-47: a new instance gets the initial state and its effect
\* starts fetchPlans, which runs to the await of line 37.
Mount ==
  /\ ~mounted
  /\ mountNo < MaxMounts
  /\ mounted' = TRUE
  /\ mountNo' = mountNo + 1
  /\ plans' = Null
  /\ loading' = TRUE
  /\ error' = Null
  /\ fetchPc' = "await"
  /\ fetchOutcome' = "pending"
  /\ AfterRender(TRUE)

\* Lines 37-38: the GET is fulfilled with body d; setPlans(response.data).
FetchSucceeds(d) ==
  /\ mounted
  /\ fetchPc = "await"
  /\ plans' = d
  /\ fetchPc' = "setLoading"
  /\ fetchOutcome' = "fulfilled"
  /\ AfterRender(FALSE)
  /\ UNCHANGED <<mounted, mountNo, loading, error>>

\* Lines 40-41: the GET is rejected; setError(...).
FetchFails ==
  /\ mounted
  /\ fetchPc = "await"
  /\ error' = <<ErrorMessage>>
  /\ fetchPc' = "setLoading"
  /\ fetchOutcome' = "rejected"
  /\ AfterRender(FALSE)
  /\ UNCHANGED <<mounted, mountNo, plans, loading>>

\* Lines 39 and 42: setLoading(false), then fetchPlans returns.  The call
\* follows setPlans or setError after an await, outside a React event
\* handler, so the component has rendered once in between.
SetLoadingFalse ==
  /\ mounted
  /\ fetchPc = "setLoading"
  /\ loading' = FALSE
  /\ fetchPc' = "done"
  /\ AfterRender(FALSE)
  /\ UNCHANGED <<mounted, mountNo, plans, error, fetchOutcome>>

\* The route changes (src/src/App.js lines 28-31): the instance and its
\* state are dropped; its request, if in flight, stays in flight.
Unmount ==
  /\ mounted
  /\ fetchPc /= "setLoading"
  /\ mounted' = FALSE
  /\ plans' = Null
  /\ loading' = TRUE
  /\ error' = Null
  /\ fetchPc' = "none"
  /\ fetchOutcome' = "pending"
  /\ getCount' = 0
  /\ stale' = IF fetchPc = "await" THEN stale + 1 ELSE stale
  /\ UNCHANGED mountNo

\* A request of an unmounted instance settles: its setPlans, setError and
\* setLoading act on the dropped instance and change nothing displayed.
StaleSettles ==
  /\ stale > 0
  /\ fetchPc /= "setLoading"
  /\ stale' = stale - 1
  /\ UNCHANGED <<mounted, mountNo, plans, loading, error, fetchPc, fetchOutcome, getCount>>

\* Variant: the !plans test placed before the error test.
PlansView_noPlansFirst ==
  IF loading THEN "loading"
  ELSE IF ~Truthy(plans) THEN "none"
  ELSE IF Truthy(error) THEN "error"
  ELSE "list"

\* Lines 49-59: which of the four views the render returns.
PlansView ==
  IF loading THEN "loading"
  ELSE IF Truthy(error) THEN "error"
  ELSE IF ~Truthy(plans) THEN "none"
  ELSE "list"

\* Variant: the second and third cards nested inside the best_plan test.
CardShown_nested(s) ==
  /\ PlansView = "list"
  /\ Truthy(ReadNullable(plans[1], "best_plan"))
  /\ Truthy(ReadNullable(plans[1], s))

\* Lines 68, 89, 110: plans.<slot> && ( card ).
CardShown(s) == PlansView = "list" /\ Truthy(ReadNullable(plans[1], s))

CardsShown == { s \in Slots : CardShown(s) }

\* Lines 75-82, 96-103, 117-124: what a card displays of the plan p.
Card(p) ==
  [name     |-> Read(p, "name"),
   price    |-> Read(p, "price"),
   features |-> IF "features" \in DOMAIN p
                  THEN [n \in 1 .. Len(p.features) |-> p.features[n]]
                  ELSE <<>>]

\* Lines 80, 101, 122: plans.<slot>.features.map throws a TypeError when
\* the plan has no features.
RenderThrows ==
  \E s \in CardsShown : "features" \notin DOMAIN ReadNullable(plans[1], s)[1]

CardOf(s) == Card(ReadNullable(plans[1], s)[1])

----------------------------------------------------------------------------
(* PlanRecommender: spec.md section 4.5 *)

CatalogPlans == {PlanA, PlanB, PlanC, PlanD}

KwhValues == {0, 400, 500}

\* Lexicographic order of the plan names in use.
NameRank(name) ==
  CASE name = "A" -> 1 [] name = "B" -> 2 [] name = "C" -> 3 [] name = "D" -> 4

\* Estimated monthly cost in cents: base_fee + rate_kwh * average_monthly_kwh
\* when rate_kwh is present, else monthly_price.
EstimatedCost(p, kwh) ==
  IF "rate_kwh" \in DOMAIN p
    THEN p.base_fee + p.rate_kwh * kwh
    ELSE p.monthly_price

\* p sorts before q: lower estimated cost, ties broken by name.
Before(p, q, kwh) ==
  \/ EstimatedCost(p, kwh) < EstimatedCost(q, kwh)
  \/ /\ EstimatedCost(p, kwh) = EstimatedCost(q, kwh)
     /\ NameRank(p.name) < NameRank(q.name)

\* Variant: descending order.
InsertPlan_descending(p, s, kwh) ==
  LET n == Cardinality({ i \in 1 .. Len(s) : Before(p, s[i], kwh) })
  IN  SubSeq(s, 1, n) \o <<p>> \o SubSeq(s, n + 1, Len(s))

\* Insert p into the sorted sequence s.
InsertPlan(p, s, kwh) ==
  LET n == Cardinality({ i \in 1 .. Len(s) : Before(s[i], p, kwh) })
  IN  SubSeq(s, 1, n) \o <<p>> \o SubSeq(s, n + 1, Len(s))

RECURSIVE SortPlans(_, _)
SortPlans(c, kwh) ==
  IF Len(c) = 0 THEN <<>>
  ELSE InsertPlan(Head(c), SortPlans(Tail(c), kwh), kwh)

SlotRank(s) ==
  CASE s = "best_plan" -> 1 [] s = "second_best" -> 2 [] s = "third_best" -> 3

\* The first three of the sorted plans; a slot past the end is absent.
TopThree(sorted) ==
  [s \in Slots |-> IF SlotRank(s) <= Len(sorted) THEN <<sorted[SlotRank(s)]>> ELSE Null]

NoPlans == [s \in Slots |-> Null]

\* Catalogs: sequences of up to MaxCatalog plans with distinct names.
Catalogs ==
  UNION { { c \in [1 .. n -> CatalogPlans] : \A i, j \in 1 .. n : c[i] = c[j] => i = j }
          : n \in 0 .. MaxCatalog }

RecInit ==
  /\ catalog \in Catalogs
  /\ avgMonthlyKwh \in KwhValues
  /\ ranked = NoPlans
  /\ recPc = "ready"

RecIdle ==
  /\ catalog = <<>>
  /\ avgMonthlyKwh = 0
  /\ ranked = NoPlans
  /\ recPc = "ready"

Recommend ==
  /\ recPc = "ready"
  /\ ranked' = TopThree(SortPlans(catalog, avgMonthlyKwh))
  /\ recPc' = "done"
  /\ UNCHANGED <<catalog, avgMonthlyKwh>>

----------------------------------------------------------------------------
(* AnomalyDetector: spec.md section 4.3 *)

UsageKwh == {30, 31, 32, 95}

KTenths == {10, 15, 20}

RECURSIVE SumSeq(_)
SumSeq(s) == IF Len(s) = 0 THEN 0 ELSE Head(s) + SumSeq(Tail(s))

\* n * (x - mean), an integer.
Deviation(x, s) == Len(s) * x - SumSeq(s)

\* n^2 * (n - 1) * (sample variance), an integer.
SquaredDeviations(s) ==
  SumSeq([i \in 1 .. Len(s) |-> Deviation(s[i], s) * Deviation(s[i], s)])

\* Variant: the multiplier k left out, |x - mean| > sigma.
IsAnomalous_noMultiplier(x, s, k10) ==
  (Len(s) - 1) * Deviation(x, s) * Deviation(x, s) > SquaredDeviations(s)

\* |x - mean| > k * sigma with the sample standard deviation sigma, both
\* sides squared and scaled by 100 * n^2 * (n - 1).
IsAnomalous(x, s, k10) ==
  100 * (Len(s) - 1) * Deviation(x, s) * Deviation(x, s) > k10 * k10 * SquaredDeviations(s)

\* The flagged readings in date order; none when there are fewer than 2.
Flagged(s, k10) ==
  IF Len(s) < 2 THEN {}
  ELSE { i \in 1 .. Len(s) : IsAnomalous(s[i], s, k10) }

\* The reading at index i is that of day i (2024-01-0i in the scenario).
Detect(s, k10) ==
  LET days == AscendingDays(Flagged(s, k10))
  IN  [anomaly_dates  |-> days,
       anomaly_values |-> [n \in 1 .. Len(days) |-> s[days[n]]]]

EmptyReport == [anomaly_dates |-> <<>>, anomaly_values |-> <<>>]

SeriesSet == UNION { [1 .. n -> UsageKwh] : n \in 0 .. MaxSeries }

DetInit ==
  /\ series \in SeriesSet
  /\ kTenths \in KTenths
  /\ report = EmptyReport
  /\ detPc = "ready"

DetIdle ==
  /\ series = <<>>
  /\ kTenths = 20
  /\ report = EmptyReport
  /\ detPc = "ready"

DetectAnomalies ==
  /\ detPc = "ready"
  /\ report' = Detect(series, kTenths)
  /\ detPc' = "done"
  /\ UNCHANGED <<series, kTenths>>

----------------------------------------------------------------------------
(* Specifications *)

\* Dashboard
SelectFile == (\E f \in Files : HandleFileUpload(f)) /\ UNCHANGED <<plansVars, recVars, detVars>>
RequestRejected == (\E i \in 1 .. MaxUploads : UploadFails(i)) /\ UNCHANGED <<plansVars, recVars, detVars>>
RequestFulfilled ==
  /\ \E i \in DOMAIN uploads : \E d \in ResponseData(uploads[i].file) : UploadSucceeds(i, d)
  /\ UNCHANGED <<plansVars, recVars, detVars>>
ContinuationEnds == (\E i \in 1 .. MaxUploads : SetAnomalies(i)) /\ UNCHANGED <<plansVars, recVars, detVars>>

Init == DashInit /\ PlansInit /\ RecIdle /\ DetIdle
Next == SelectFile \/ RequestRejected \/ RequestFulfilled \/ ContinuationEnds
Spec == Init /\ [][Next]_vars

\* Plans
PlansMount == Mount /\ UNCHANGED <<dashVars, recVars, detVars>>
PlansFulfilled == (\E d \in PlansResponseData : FetchSucceeds(d)) /\ UNCHANGED <<dashVars, recVars, detVars>>
PlansRejected == FetchFails /\ UNCHANGED <<dashVars, recVars, detVars>>
PlansSettled == SetLoadingFalse /\ UNCHANGED <<dashVars, recVars, detVars>>
PlansUnmount == Unmount /\ UNCHANGED <<dashVars, recVars, detVars>>
PlansStale == StaleSettles /\ UNCHANGED <<dashVars, recVars, detVars>>

PlansNext ==
  PlansMount \/ PlansFulfilled \/ PlansRejected \/ PlansSettled \/ PlansUnmount \/ PlansStale
PlansSpec == Init /\ [][PlansNext]_vars

\* PlanRecommender
RecommenderInit == DashInit /\ PlansInit /\ RecInit /\ DetIdle
RecommenderNext == Recommend /\ UNCHANGED <<dashVars, plansVars, detVars>>
RecommenderSpec == RecommenderInit /\ [][RecommenderNext]_vars

\* AnomalyDetector
DetectorInit == DashInit /\ PlansInit /\ RecIdle /\ DetInit
DetectorNext == DetectAnomalies /\ UNCHANGED <<dashVars, plansVars, recVars>>
DetectorSpec == DetectorInit /\ [][DetectorNext]_vars

----------------------------------------------------------------------------
(* Properties *)

SlotPresent(r, s) == s \in DOMAIN r /\ r[s] /= Null

FetchedRankedPlans ==
  mounted /\ fetchPc = "done" /\ fetchOutcome = "fulfilled" /\ Truthy(plans)

\* C1: once a RankedPlans object has been fetched, the card of a slot is
\* rendered exactly when the slot is present, whichever of the three slots
\* are present; rendering raises no error and the error state stays null.
C1_CardIffSlotPresent ==
  FetchedRankedPlans =>
    /\ \A s \in Slots : CardShown(s) <=> SlotPresent(plans[1], s)
    /\ ~RenderThrows
    /\ error = Null

\* C1 witness: the empty catalog, all three slots absent, is displayed as a
\* plan list without cards.
C1_Witness ==
  /\ FetchedRankedPlans
  /\ plans[1] = [s \in Slots |-> Null]
  /\ PlansView = "list"
  /\ CardsShown = {}

\* C2: every card shows a defined value for the name, the monthly price
\* (monthly_price) and each feature, in order, of the Plan in its slot.
C2_CardShowsPlanFields ==
  \A s \in CardsShown :
    LET p == ReadNullable(plans[1], s)[1]
    IN  /\ CardOf(s).name = <<p.name>>
        /\ CardOf(s).price = <<p.monthly_price>>
        /\ CardOf(s).features = p.features

\* C3: for an index-aligned AnomalyReport with at least one entry the anomaly
\* card has one line per date, in the order of anomaly_dates, the n-th line
\* pairing the n-th date with the n-th value; for an empty report there is
\* no anomaly card.
C3_OneLinePerAnomaly ==
  Truthy(anomalies) =>
    LET a == anomalies[1]
    IN  IF Len(a.anomaly_dates) >= 1 /\ Len(a.anomaly_dates) = Len(a.anomaly_values)
          THEN /\ AnomalyCard /= Null
               /\ Len(AnomalyCard[1]) = Len(a.anomaly_dates)
               /\ \A n \in 1 .. Len(a.anomaly_dates) :
                    /\ AnomalyCard[1][n].date = a.anomaly_dates[n]
                    /\ AnomalyCard[1][n].usage = <<a.anomaly_values[n]>>
          ELSE Len(a.anomaly_dates) = 0 => AnomalyCard = Null

\* C3 witness: a report of two flagged days is displayed as two lines.
C3_Witness ==
  /\ ~Partway
  /\ Truthy(anomalies)
  /\ anomalies[1].anomaly_dates = <<1, 2>>
  /\ anomalies[1].anomaly_values = <<UsageOfDay(1), UsageOfDay(2)>>
  /\ Len(AnomalyCard[1]) = 2

Scenario == <<30, 32, 31, 95>>

ScenarioDetected == detPc = "done" /\ series = Scenario /\ kTenths = 20

\* C6 as stated: with k = 2.0 the scenario series yields the report
\* {anomaly_dates: [day 4], anomaly_values: [95]}.
C6_ScenarioFlagsDay4 ==
  ScenarioDetected => report = [anomaly_dates |-> <<4>>, anomaly_values |-> <<95>>]

\* C6 amended: with k = 2.0 the scenario series yields the empty report; the
\* reading of day 4 deviates by 48 from the mean 47, less than 2 sigma.
C6_ScenarioFlagsNothing ==
  ScenarioDetected => report = EmptyReport

\* C6 witness: the detector has run on the scenario series with k = 2.0.
C6_Witness == ScenarioDetected /\ report = EmptyReport

\* C7: when file B was selected while file A's request was in flight and
\* both requests have been fulfilled with their upload results, analysis and
\* anomalies are those returned for B, the file in the file state.
C7_LatestUploadWins ==
  ( /\ Len(uploads) = 2
    /\ uploads[1].file /= uploads[2].file
    /\ uploads[2].overlaps
    /\ uploads[1].outcome = "ok"
    /\ uploads[2].outcome = "ok" ) =>
    /\ file = <<uploads[2].file>>
    /\ analysis = Read(returned[1][1], "analysis")
    /\ anomalies = Read(returned[1][1], "anomalies")

SameMount == mounted /\ mounted' /\ mountNo' = mountNo

\* C8: a mounted Plans has issued exactly one GET; loading is true until
\* the request has settled and false once fetchPlans has returned; within a
\* mount loading never turns true again, no further GET is issued, and an
\* error message once set stays displayed.
C8_FetchOncePerMount ==
  /\ [](mounted => /\ getCount = 1
                   /\ (fetchPc \in {"await", "setLoading"} => loading)
                   /\ (fetchPc = "done" => ~loading))
  /\ [][ SameMount =>
           /\ (~loading => ~loading')
           /\ getCount' = getCount
           /\ (Truthy(error) => error' = error)
           /\ (PlansView = "error" => PlansView' = "error") ]_vars

\* C8 witness: the fetch of the second mount failed and its error message
\* is displayed.
C8_Witness ==
  /\ mounted
  /\ mountNo = 2
  /\ fetchPc = "done"
  /\ fetchOutcome = "rejected"
  /\ getCount = 1
  /\ ~loading
  /\ PlansView = "error"

ViewByPrecedence ==
  /\ PlansView = "loading" <=> loading
  /\ PlansView = "error" <=> (~loading /\ error /= Null)
  /\ PlansView = "none" <=> (~loading /\ error = Null /\ plans = Null)
  /\ PlansView = "list" <=> (~loading /\ error = Null /\ plans /= Null)
  /\ PlansView = "error" => fetchOutcome = "rejected"
  /\ PlansView \in {"none", "list"} => fetchOutcome = "fulfilled"

\* C9 as stated: at most one of plans and error is non-null, both are null
\* while loading is true, and the view follows the precedence loading,
\* error, no plans, plan list.
C9_NullWhileLoading ==
  mounted =>
    /\ ~(Truthy(plans) /\ Truthy(error))
    /\ (loading => plans = Null /\ error = Null)
    /\ ViewByPrecedence

\* C9 amended: at most one of plans and error is non-null, both are null
\* while loading is true except between the settling continuation's first
\* state update and its setLoading(false), and the view follows the
\* precedence loading, error, no plans, plan list.
C9_NullUntilSettled ==
  mounted =>
    /\ ~(Truthy(plans) /\ Truthy(error))
    /\ (loading /\ fetchPc /= "setLoading" => plans = Null /\ error = Null)
    /\ ViewByPrecedence

\* C9 witness: the fetch was fulfilled with an empty body and 'No plans
\* available' is shown.
C9_Witness ==
  /\ mounted
  /\ fetchPc = "done"
  /\ fetchOutcome = "fulfilled"
  /\ plans = Null
  /\ PlansView = "none"

\* C10: whenever no response continuation is partway, analysis and
\* anomalies are both at their initial null or were both written by the
\* continuation of one fulfilled upload.
C10_ResultsPaired ==
  (\A i \in DOMAIN uploads : uploads[i].pc /= "setAnomalies") =>
    /\ analysisFrom = anomaliesFrom
    /\ analysisFrom = 0 => (analysis = Null /\ anomalies = Null)
    /\ analysisFrom /= 0 =>
         /\ analysisFrom \in DOMAIN uploads
         /\ uploads[analysisFrom].outcome \in {"ok", "empty"}

\* C10 witness: three overlapping uploads, the first fulfilled last, the
\* second rejected; the results displayed are both the first one's.
C10_Witness ==
  /\ Len(uploads) = 3
  /\ uploads[1].outcome = "ok"
  /\ uploads[2].outcome = "failed"
  /\ uploads[3].outcome = "ok"
  /\ uploads[2].overlaps
  /\ uploads[3].overlaps
  /\ analysisFrom = 1
  /\ anomaliesFrom = 1
  /\ Truthy(analysis)
  /\ Truthy(anomalies)

====
